---- MODULE Spec2Model ----
(***************************************************************************)
(* Model of the itinerary route of RoamIQ (the /app/api/itinerary/route.js *)
(* part of src/app/components/HotelSuggestions.jsx):                       *)
(*   - the re-framing of Groq's server-sent events into a plain byte       *)
(*     stream (ReadableStream.start inside POST),         SpecStream       *)
(*   - the POST pipeline: guard rail, geocoding, data fetching, Groq,      *)
(*                                                        SpecPost         *)
(*   - getTravelData with pre-fetched coordinates,        SpecTravel       *)
(* A JavaScript string is a sequence of text fragments.  A fragment is one  *)
(* character, except that the fixed skeleton of a JSON payload is cut into *)
(* a few longer fragments; a chunk boundary falls between two fragments.   *)
(***************************************************************************)
EXTENDS Integers, Sequences, FiniteSets, TLC

VARIABLES
    \* --- ReadableStream.start ---
    upstream,      \* every character the Groq response body will deliver
    pos,           \* how many of them reader.read() has delivered so far
    buffer,        \* `buffer`: the incomplete line carried between chunks
    enqueued,      \* the deltas handed to controller.enqueue, in order
    controller,    \* state of the response stream: open, closed or errored
    spc,           \* position of start(): loop, awaiting (a read), returned
    carried,       \* history: a delta line begun in one chunk was completed by a later one
    \* --- POST ---
    from, destination, env, interestsOk,
    ppc,           \* position of POST
    geo,           \* the two getCoords calls
    caught,        \* message of the error POST caught from the data fetching
    travel, destInfo,   \* getTravelData / getDestinationInfo
    groq,          \* the fetch to Groq
    response,      \* what POST returned
    readerReads,   \* reader.read() calls on the Groq body
    \* --- getTravelData ---
    tpc,           \* position of getTravelData
    carResponse, busResponse,   \* the two routing fetches
    carBody, busBody,           \* what their response bodies hold
    serpKey,       \* SERPAPI_API_KEY is set
    flightSearch, distanceSearch,   \* what the two SerpApi searches answer
    haversineKm,   \* the great-circle distance of the two coordinates, in km
    options, overallDistance    \* the locals of getTravelData

streamVars == <<upstream, pos, buffer, enqueued, controller, spc, carried>>
postVars == <<from, destination, env, interestsOk, ppc, geo, caught, travel, destInfo,
              groq, response, readerReads>>
travelVars == <<tpc, carResponse, busResponse, carBody, busBody, serpKey,
                flightSearch, distanceSearch, haversineKm, options, overallDistance>>
vars == <<streamVars, postVars, travelVars>>

(***************************************************************************)
(* Bounds of the model.                                                    *)
(***************************************************************************)
\* Number of lines in an upstream event stream.
MaxLines == 2

(***************************************************************************)
(* String helpers (JavaScript String methods on character sequences).      *)
(***************************************************************************)
Min(S) == CHOOSE x \in S : \A y \in S : x <= y
Max(S) == CHOOSE x \in S : \A y \in S : x >= y

\* String.prototype.startsWith
startsWith(s, prefix) ==
    /\ Len(s) >= Len(prefix)
    /\ SubSeq(s, 1, Len(prefix)) = prefix

\* String.prototype.slice(n): the string without its first n characters
slice(s, n) == SubSeq(s, n + 1, Len(s))

\* String.prototype.indexOf, 1-based; 0 when sep does not occur
indexOf(s, sep) ==
    LET hits == {i \in 1..(Len(s) - Len(sep) + 1) : SubSeq(s, i, i + Len(sep) - 1) = sep}
    IN IF hits = {} THEN 0 ELSE Min(hits)

\* String.prototype.includes
includes(s, needle) == indexOf(s, needle) # 0

\* String.prototype.split(sep) for a non-empty separator
RECURSIVE split(_, _)
split(s, sep) ==
    LET i == indexOf(s, sep)
    IN IF i = 0 THEN <<s>>
       ELSE <<SubSeq(s, 1, i - 1)>> \o split(SubSeq(s, i + Len(sep), Len(s)), sep)

\* concatenation of a sequence of strings
RECURSIVE Concat(_)
Concat(ss) == IF ss = <<>> THEN <<>> ELSE Head(ss) \o Concat(Tail(ss))

(***************************************************************************)
(* The event-stream vocabulary.                                            *)
(***************************************************************************)
Newline == <<"\n">>
DataPrefix ==
    <<"d", "a", "t", "a", ":", " ">>
DoneToken ==
    <<"[", "D", "O", "N", "E", "]">>
PayloadHi ==
    <<"{\"choices\":[{", "\"delta\":{", "\"content\":\"", "H", "i", "\"}}]}">>
PayloadBang ==
    <<"{\"choices\":[{", "\"delta\":{", "\"content\":\"", "!", "\"}}]}">>
PayloadNoChoices ==
    <<"{", "}">>
PayloadNull ==
    <<"n", "u", "l", "l">>
NoSpaceDone ==
    <<"d", "a", "t", "a", ":", "[", "D", "O", "N", "E", "]">>

\* The lines an upstream event stream is made of.
LineCatalogue ==
    { DataPrefix \o PayloadHi,
      DataPrefix \o PayloadBang,
      DataPrefix \o PayloadNoChoices,
      DataPrefix \o PayloadNull,
      DataPrefix,
      DataPrefix \o DoneToken,
      NoSpaceDone,
      <<>> }

\* JSON.parse succeeds on these payloads and throws a SyntaxError on every other
\* string the model can form (parts of them, "DONE]", the empty string).
JSONvalid(data) ==
    data \in {PayloadHi, PayloadBang, PayloadNoChoices, PayloadNull}

\* parsed.choices?.[0]?.delta?.content for a payload JSON.parse accepts:
\* a string, undefined, or a TypeError (parsed is null).
contentOf(data) ==
    CASE data = PayloadHi -> [tag |-> "string", s |-> <<"H", "i">>]
      [] data = PayloadBang -> [tag |-> "string", s |-> <<"!">>]
      [] data = PayloadNull -> [tag |-> "TypeError", s |-> <<>>]
      [] OTHER -> [tag |-> "undefined", s |-> <<>>]

\* The texts the Groq body may carry: up to MaxLines catalogue lines, each ended
\* by a newline except possibly the last.
RECURSIVE LineSeqs(_)
LineSeqs(n) ==
    IF n = 0 THEN {<<>>}
    ELSE LET shorter == LineSeqs(n - 1)
         IN shorter \cup {Append(ls, l) : ls \in {x \in shorter : Len(x) = n - 1}, l \in LineCatalogue}

RECURSIVE Terminated(_)
Terminated(ls) == IF ls = <<>> THEN <<>> ELSE Head(ls) \o Newline \o Terminated(Tail(ls))

Texts ==
    {Terminated(ls) : ls \in LineSeqs(MaxLines)}
    \cup {Terminated(SubSeq(ls, 1, Len(ls) - 1)) \o ls[Len(ls)] : ls \in LineSeqs(MaxLines) \ {<<>>}}

(***************************************************************************)
(* ReadableStream.start: the loop body.                                    *)
(***************************************************************************)
\* Faulty variant: the pop is forgotten and the last, incomplete piece is processed too.
completeLines_NoPop(lines) == lines

\* lines = buffer.split('\n'); buffer = lines.pop() || '': the complete lines
completeLines(lines) == SubSeq(lines, 1, Len(lines) - 1)

\* Faulty variant: the buffer is reset after every chunk.
incompleteLine_Dropped(lines) == <<>>

\* ... and the incomplete line kept in the buffer
incompleteLine(lines) == lines[Len(lines)]

\* the try block of the for loop: JSON.parse, delta extraction; '' when the
\* parse or the property access throws (catch: continue)
deltaOf(data) ==
    IF ~JSONvalid(data) THEN <<>>
    ELSE LET c == contentOf(data)
         IN IF c.tag = "string" THEN c.s ELSE <<>>

\* Faulty variant: [DONE] is skipped like any other line that carries no delta.
RECURSIVE forLines_DoneSkipped(_, _, _)
forLines_DoneSkipped(lines, i, enq) ==
    IF i > Len(lines) THEN [enq |-> enq, returned |-> FALSE]
    ELSE LET line == lines[i] IN
         IF startsWith(line, DataPrefix) /\ deltaOf(slice(line, Len(DataPrefix))) # <<>>
         THEN forLines_DoneSkipped(lines, i + 1, Append(enq, deltaOf(slice(line, Len(DataPrefix)))))
         ELSE forLines_DoneSkipped(lines, i + 1, enq)

\* for (const line of lines): the deltas enqueued, and whether [DONE] made
\* start() close the controller and return
RECURSIVE forLines(_, _, _)
forLines(lines, i, enq) ==
    IF i > Len(lines) THEN [enq |-> enq, returned |-> FALSE]
    ELSE LET line == lines[i] IN
         IF startsWith(line, DataPrefix)
         THEN LET data == slice(line, Len(DataPrefix)) IN
              IF data = DoneToken THEN [enq |-> enq, returned |-> TRUE]
              ELSE LET delta == deltaOf(data) IN
                   IF delta # <<>> THEN forLines(lines, i + 1, Append(enq, delta))
                   ELSE forLines(lines, i + 1, enq)
         ELSE forLines(lines, i + 1, enq)

StreamInit ==
    /\ upstream \in Texts
    /\ pos = 0
    /\ buffer = <<>>
    /\ enqueued = <<>>
    /\ controller = "open"
    /\ spc = "loop"
    /\ carried = FALSE
    \* POST and getTravelData are not running
    /\ from = <<>> /\ destination = <<>> /\ env = <<>> /\ interestsOk = TRUE
    /\ ppc = "idle" /\ geo = <<>> /\ caught = <<>> /\ travel = "idle" /\ destInfo = "idle"
    /\ groq = "idle" /\ response = <<>> /\ readerReads = 0
    /\ tpc = "idle" /\ carResponse = "idle" /\ busResponse = "idle"
    /\ carBody = <<>> /\ busBody = <<>> /\ serpKey = TRUE
    /\ flightSearch = "none" /\ distanceSearch = "none"
    /\ haversineKm = 0 /\ options = <<>> /\ overallDistance = <<>>

\* while (true) { ... await reader.read()
IssueRead ==
    /\ spc = "loop"
    /\ spc' = "awaiting"
    /\ UNCHANGED <<upstream, pos, buffer, enqueued, controller, carried>>
    /\ UNCHANGED <<postVars, travelVars>>

\* Faulty variant: the chunks are only collected, and processed when the last one arrives.
ReadChunk_Batched(k) ==
    /\ spc = "awaiting"
    /\ LET chunk == SubSeq(upstream, pos + 1, pos + k)
           last == pos + k = Len(upstream)
           lines == split(buffer \o chunk, Newline)
           r == forLines(completeLines(lines), 1, <<>>)
       IN /\ pos' = pos + k
          /\ buffer' = IF last THEN incompleteLine(lines) ELSE buffer \o chunk
          /\ enqueued' = IF last THEN enqueued \o r.enq ELSE enqueued
          /\ controller' = IF last /\ r.returned THEN "closed" ELSE controller
          /\ spc' = IF last /\ r.returned THEN "returned" ELSE "loop"
          /\ carried' = carried
    /\ UNCHANGED upstream
    /\ UNCHANGED <<postVars, travelVars>>

\* the read resolves with a chunk of k fragments, which is processed
ReadChunk(k) ==
    /\ spc = "awaiting"
    /\ LET chunk == SubSeq(upstream, pos + 1, pos + k)
           lines == split(buffer \o chunk, Newline)
           r == forLines(completeLines(lines), 1, <<>>)
       IN /\ pos' = pos + k
          /\ buffer' = incompleteLine(lines)
          /\ enqueued' = enqueued \o r.enq
          /\ controller' = IF r.returned THEN "closed" ELSE controller
          /\ spc' = IF r.returned THEN "returned" ELSE "loop"
          /\ carried' = (carried \/ (buffer # <<>> /\ Len(lines) > 1 /\ r.enq # <<>>
                                        /\ startsWith(lines[1], DataPrefix)
                                        /\ deltaOf(slice(lines[1], Len(DataPrefix))) # <<>>))
    /\ UNCHANGED upstream
    /\ UNCHANGED <<postVars, travelVars>>

\* the read resolves with done: controller.close(); break
ReadDone ==
    /\ spc = "awaiting"
    /\ pos = Len(upstream)
    /\ controller' = "closed"
    /\ spc' = "returned"
    /\ UNCHANGED <<upstream, pos, buffer, enqueued, carried>>
    /\ UNCHANGED <<postVars, travelVars>>

\* the read rejects: controller.error(error)
ReadError ==
    /\ spc = "awaiting"
    /\ controller' = "errored"
    /\ spc' = "returned"
    /\ UNCHANGED <<upstream, pos, buffer, enqueued, carried>>
    /\ UNCHANGED <<postVars, travelVars>>

StreamNext ==
    \/ IssueRead
    \/ \E k \in 1..(Len(upstream) - pos) : ReadChunk(k)
    \/ ReadDone
    \/ ReadError

(***************************************************************************)
(* What the event stream says, read off the text alone.                    *)
(***************************************************************************)
Delivered == SubSeq(upstream, 1, pos)

\* positions of the newlines of a text
NewlineAt(t) == {i \in 1..Len(t) : t[i] = "\n"}

\* the line that the newline at position e ends
LineEndingAt(t, e) ==
    SubSeq(t, Max({0} \cup {i \in NewlineAt(t) : i < e}) + 1, e - 1)

DoneLine == DataPrefix \o DoneToken

\* the newline at position e ends a line that is exactly 'data: [DONE]'
DoneLineEndsAt(t, e) ==
    LET b == e - Len(DoneLine)
    IN /\ t[e] = "\n"
       /\ b >= 1
       /\ SubSeq(t, b, e - 1) = DoneLine
       /\ (b = 1 \/ t[b - 1] = "\n")

\* the newline that ends the first 'data: [DONE]' line; Len(t) + 1 if there is none
FirstDoneEnd(t) ==
    LET D == {e \in 1..Len(t) : DoneLineEndsAt(t, e)}
    IN IF D = {} THEN Len(t) + 1 ELSE Min(D)

\* a line 'data: <valid JSON whose choices[0].delta.content is a non-empty string>'
CarriesDelta(l) ==
    /\ Len(l) >= Len(DataPrefix)
    /\ \A i \in 1..Len(DataPrefix) : l[i] = DataPrefix[i]
    /\ LET payload == SubSeq(l, Len(DataPrefix) + 1, Len(l))
       IN /\ JSONvalid(payload)
          /\ contentOf(payload).tag = "string"
          /\ contentOf(payload).s # <<>>

ContentOfLine(l) == contentOf(SubSeq(l, Len(DataPrefix) + 1, Len(l))).s

RECURSIVE DeltasAt(_, _)
DeltasAt(t, E) ==
    IF E = {} THEN <<>>
    ELSE <<ContentOfLine(LineEndingAt(t, Min(E)))>> \o DeltasAt(t, E \ {Min(E)})

\* the deltas of the newline-terminated delta lines before the first [DONE] line
ExpectedDeltas(t) ==
    DeltasAt(t, {e \in NewlineAt(t) : e < FirstDoneEnd(t) /\ CarriesDelta(LineEndingAt(t, e))})

DoneDelivered == FirstDoneEnd(Delivered) <= pos

\* C1: when start() has returned, the bytes enqueued are exactly the
\* concatenation, in upstream order, of the non-empty delta contents of the
\* newline-terminated valid 'data: ' lines delivered before the first
\* 'data: [DONE]' line; a stream that was closed has seen the whole upstream
\* or its first [DONE].
C1_Reframing ==
    spc = "returned" =>
        /\ Concat(enqueued) = Concat(ExpectedDeltas(Delivered))
        /\ controller = "closed" => Concat(enqueued) = Concat(ExpectedDeltas(upstream))

C1_Witness ==
    /\ spc = "returned" /\ controller = "closed"
    /\ Concat(enqueued) = <<"H", "i", "!">>

\* C2: whenever a read is outstanding, every delta of every complete line of
\* the chunks delivered so far has already been enqueued.
C2_Incremental ==
    spc = "awaiting" => enqueued = ExpectedDeltas(Delivered)

C2_Witness ==
    /\ spc = "awaiting" /\ pos < Len(upstream)
    /\ enqueued # <<>>
    /\ ExpectedDeltas(upstream) # enqueued

\* C7: the deltas enqueued and the final state do not depend on the chunking:
\* a run that is not cut short by a read error ends closed with the deltas that
\* processing the whole text as one chunk gives, and while the stream is open
\* the buffer holds exactly the incomplete last line of what was delivered.
OneChunk == forLines(completeLines(split(upstream, Newline)), 1, <<>>).enq

C7_ChunkIndependence ==
    /\ (spc = "returned" /\ controller # "errored") =>
            (controller = "closed" /\ enqueued = OneChunk)
    /\ controller = "open" =>
            buffer = SubSeq(Delivered, Max({0} \cup NewlineAt(Delivered)) + 1, pos)

C7_Witness ==
    /\ spc = "returned" /\ controller = "closed"
    /\ carried
    /\ Len(enqueued) = 2

\* C8: in every state in which a complete 'data: [DONE]' line has been
\* delivered, the stream is closed, start() has returned (no read is outstanding
\* and none will be issued), and what was enqueued is exactly the deltas of the
\* lines before that line: nothing from a later line of the same chunk or of a
\* later chunk.
C8_DoneTerminates ==
    DoneDelivered =>
        /\ controller = "closed"
        /\ spc = "returned"
        /\ enqueued = ExpectedDeltas(SubSeq(upstream, 1, FirstDoneEnd(Delivered)))

C8_Witness ==
    /\ DoneDelivered /\ controller = "closed"
    /\ \E e \in NewlineAt(Delivered) :
          e > FirstDoneEnd(Delivered) /\ CarriesDelta(LineEndingAt(Delivered, e))

(***************************************************************************)
(* POST: inputs and messages.                                              *)
(***************************************************************************)
\* Number of reads of the Groq body the model follows after the stream response.
MaxReads == 2

UpperLetters ==
    <<"A", "B", "C", "D", "E", "F", "G", "H", "I", "J", "K", "L", "M", "N", "O", "P", "Q", "R", "S", "T", "U", "V", "W", "X", "Y", "Z">>
LowerLetters ==
    <<"a", "b", "c", "d", "e", "f", "g", "h", "i", "j", "k", "l", "m", "n", "o", "p", "q", "r", "s", "t", "u", "v", "w", "x", "y", "z">>
AntarcticaNeedle ==
    <<"a", "n", "t", "a", "r", "c", "t", "i", "c", "a">>
LocationNotFound ==
    <<"L", "o", "c", "a", "t", "i", "o", "n", " ", "n", "o", "t", " ", "f", "o", "u", "n", "d">>
LocationNotFoundPrefix ==
    <<"L", "o", "c", "a", "t", "i", "o", "n", " ", "n", "o", "t", " ", "f", "o", "u", "n", "d", ":", " ">>
FailedGeocodePrefix ==
    <<"F", "a", "i", "l", "e", "d", " ", "t", "o", " ", "g", "e", "o", "c", "o", "d", "e", " ", "l", "o", "c", "a", "t", "i", "o", "n", ":", " ">>
KeyMissingMessage ==
    <<"T", "o", "m", "T", "o", "m", " ", "A", "P", "I", " ", "k", "e", "y", " ", "i", "s", " ", "m", "i", "s", "s", "i", "n", "g">>
FetchFailedMessage ==
    <<"f", "e", "t", "c", "h", " ", "f", "a", "i", "l", "e", "d">>
CouldNotFindPrefix ==
    <<"C", "o", "u", "l", "d", " ", "n", "o", "t", " ", "f", "i", "n", "d", " ", "l", "o", "c", "a", "t", "i", "o", "n", ":", " ">>
FailedFetchPrefix ==
    <<"F", "a", "i", "l", "e", "d", " ", "t", "o", " ", "f", "e", "t", "c", "h", " ", "r", "e", "q", "u", "i", "r", "e", "d", " ", "A", "P", "I", " ", "d", "a", "t", "a", ":", " ">>
ColonSpace ==
    <<":", " ">>
Goa ==
    <<"G", "o", "a">>
StIves ==
    <<"S", "t", ":", " ", "I", "v", "e", "s">>
Rome ==
    <<"R", "o", "m", "e">>
AntarcticaTitle ==
    <<"A", "n", "t", "a", "r", "c", "t", "i", "c", "a">>
AntarcticaUpper ==
    <<"A", "N", "T", "A", "R", "C", "T", "I", "C", "A">>
AntarcticaInside ==
    <<"R", "o", "s", "s", " ", "S", "e", "a", ",", " ", "a", "n", "t", "A", "r", "c", "t", "i", "c", "a", " ", "t", "o", "u", "r">>
Antarctic ==
    <<"A", "n", "t", "a", "r", "c", "t", "i", "c">>
MissingGroqKeyMessage ==
    <<"Missing GROQ_API_KEY. Please configure your Groq API key in .env.local.">>
GroqApiErrorMessage ==
    <<"Groq API error">>
GroqFailedMessage ==
    <<"Failed to generate itinerary using Groq API. Check your GROQ_API_KEY and network connectivity.">>
AntarcticaMessage ==
    <<"Travel to Antarctica requires a specialized expedition and cannot be planned this way.">>

Origins == {Goa, StIves}
Destinations == {Rome, StIves, AntarcticaTitle, AntarcticaUpper, AntarcticaInside, Antarctic}

NoResponse == [status |-> 0, contentType |-> "", error |-> <<>>]
JsonError(status, message) ==
    [status |-> status, contentType |-> "application/json", error |-> message]
StreamResponse == [status |-> 200, contentType |-> "text/plain; charset=utf-8", error |-> <<>>]

\* Faulty variant: the destination is searched as typed.
toLowerCase_Forgotten(s) == s

\* String.prototype.toLowerCase
toLowerCase(s) ==
    [i \in 1..Len(s) |->
        IF \E n \in 1..Len(UpperLetters) : UpperLetters[n] = s[i]
        THEN LowerLetters[CHOOSE n \in 1..Len(UpperLetters) : UpperLetters[n] = s[i]]
        ELSE s[i]]

\* the guard rail: destination.toLowerCase().includes('antarctica')
antarcticaGuard(dest) == includes(toLowerCase(dest), AntarcticaNeedle)

\* the message of the Error a failed getCoords(location) throws
getCoordsError(location, outcome) ==
    CASE outcome = "keyMissing" -> KeyMissingMessage
      [] outcome = "notOk" -> FailedGeocodePrefix \o location
      [] outcome = "empty" -> LocationNotFoundPrefix \o location
      [] OTHER -> FetchFailedMessage

\* the catch block of POST: the error message of the 500 response
errorMessage(message) ==
    IF includes(message, LocationNotFound)
    THEN LET parts == split(message, ColonSpace)
         IN CouldNotFindPrefix \o (IF Len(parts) >= 2 THEN parts[2] ELSE <<"undefined">>)
    ELSE FailedFetchPrefix \o message

Locations == [from |-> from, dest |-> destination]
Other(who) == IF who = "from" THEN "dest" ELSE "from"

\* after both data fetches: date arithmetic and the prompt (interests.join throws
\* a TypeError out of POST when interests is no array), then the GROQ_API_KEY
\* check and the fetch to Groq
groqStage ==
    IF ~interestsOk THEN [ppc |-> "threw", groq |-> "idle", response |-> NoResponse]
    ELSE IF ~env.GROQ_API_KEY
         THEN [ppc |-> "returned", groq |-> "idle",
               response |-> JsonError(500, MissingGroqKeyMessage)]
         ELSE [ppc |-> "groq", groq |-> "pending", response |-> NoResponse]

PostInit ==
    /\ from \in Origins
    /\ destination \in Destinations
    /\ env \in [TOMTOM_API_KEY : BOOLEAN, GROQ_API_KEY : BOOLEAN]
    /\ interestsOk \in BOOLEAN
    /\ ppc = "start"
    /\ geo = [from |-> "idle", dest |-> "idle"]
    /\ caught = <<>>
    /\ travel = "idle" /\ destInfo = "idle"
    /\ groq = "idle"
    /\ response = NoResponse
    /\ readerReads = 0
    \* start() and getTravelData are not running
    /\ upstream = <<>> /\ pos = 0 /\ buffer = <<>> /\ enqueued = <<>>
    /\ controller = "open" /\ spc = "idle" /\ carried = FALSE
    /\ tpc = "idle" /\ carResponse = "idle" /\ busResponse = "idle"
    /\ carBody = <<>> /\ busBody = <<>> /\ serpKey = TRUE
    /\ flightSearch = "none" /\ distanceSearch = "none"
    /\ haversineKm = 0 /\ options = <<>> /\ overallDistance = <<>>

\* the Antarctica guard rail returns the 400 response
AntarcticaGuard ==
    /\ ppc = "start"
    /\ antarcticaGuard(destination)
    /\ response' = JsonError(400, AntarcticaMessage)
    /\ ppc' = "returned"
    /\ UNCHANGED <<from, destination, env, interestsOk, geo, caught, travel, destInfo,
                   groq, readerReads>>
    /\ UNCHANGED <<streamVars, travelVars>>

\* Promise.all([getCoords(from), getCoords(destination)]): both calls start; without
\* a TomTom key both throw at once and the first rejection, getCoords(from)'s, is caught
StartGeocoding ==
    /\ ppc = "start"
    /\ ~antarcticaGuard(destination)
    /\ IF env.TOMTOM_API_KEY
       THEN /\ geo' = [from |-> "pending", dest |-> "pending"]
            /\ ppc' = "geocoding"
            /\ UNCHANGED <<caught, response>>
       ELSE /\ geo' = [from |-> "rejected", dest |-> "rejected"]
            /\ caught' = getCoordsError(from, "keyMissing")
            /\ response' = JsonError(500, errorMessage(getCoordsError(from, "keyMissing")))
            /\ ppc' = "returned"
    /\ UNCHANGED <<from, destination, env, interestsOk, travel, destInfo, groq, readerReads>>
    /\ UNCHANGED <<streamVars, travelVars>>

\* Faulty variant: the data fetches start as soon as one getCoords call has succeeded.
GetCoordsSettle_Race(who, outcome) ==
    /\ geo[who] = "pending"
    /\ geo' = [geo EXCEPT ![who] = IF outcome = "ok" THEN "fulfilled" ELSE "rejected"]
    /\ IF ppc = "geocoding" /\ outcome = "ok"
       THEN /\ travel' = "running" /\ destInfo' = "running" /\ ppc' = "fetching"
            /\ UNCHANGED <<caught, response>>
       ELSE IF ppc = "geocoding"
       THEN /\ caught' = getCoordsError(Locations[who], outcome)
            /\ response' = JsonError(500, errorMessage(getCoordsError(Locations[who], outcome)))
            /\ ppc' = "returned"
            /\ UNCHANGED <<travel, destInfo>>
       ELSE UNCHANGED <<caught, response, ppc, travel, destInfo>>
    /\ UNCHANGED <<from, destination, env, interestsOk, groq, readerReads>>
    /\ UNCHANGED <<streamVars, travelVars>>

\* one getCoords call settles.  While POST awaits the Promise.all, the first
\* rejection is caught and answered with the 500 response; when both calls have
\* succeeded getTravelData and getDestinationInfo are started.  A call that
\* settles after POST has returned changes nothing else.
GetCoordsSettle(who, outcome) ==
    /\ geo[who] = "pending"
    /\ geo' = [geo EXCEPT ![who] = IF outcome = "ok" THEN "fulfilled" ELSE "rejected"]
    /\ IF ppc = "geocoding" /\ outcome # "ok"
       THEN /\ caught' = getCoordsError(Locations[who], outcome)
            /\ response' = JsonError(500, errorMessage(getCoordsError(Locations[who], outcome)))
            /\ ppc' = "returned"
            /\ UNCHANGED <<travel, destInfo>>
       ELSE IF ppc = "geocoding" /\ geo[Other(who)] = "fulfilled"
       THEN /\ travel' = "running" /\ destInfo' = "running" /\ ppc' = "fetching"
            /\ UNCHANGED <<caught, response>>
       ELSE UNCHANGED <<caught, response, ppc, travel, destInfo>>
    /\ UNCHANGED <<from, destination, env, interestsOk, groq, readerReads>>
    /\ UNCHANGED <<streamVars, travelVars>>

\* getTravelData resolves (it catches its own errors); when getDestinationInfo
\* has resolved too, POST goes on to the Groq stage
TravelDataDone ==
    /\ travel = "running"
    /\ travel' = "done"
    /\ IF destInfo = "done"
       THEN /\ ppc' = groqStage.ppc /\ groq' = groqStage.groq /\ response' = groqStage.response
       ELSE UNCHANGED <<ppc, groq, response>>
    /\ UNCHANGED <<from, destination, env, interestsOk, geo, caught, destInfo, readerReads>>
    /\ UNCHANGED <<streamVars, travelVars>>

\* getDestinationInfo resolves (it catches its own errors)
DestinationInfoDone ==
    /\ destInfo = "running"
    /\ destInfo' = "done"
    /\ IF travel = "done"
       THEN /\ ppc' = groqStage.ppc /\ groq' = groqStage.groq /\ response' = groqStage.response
       ELSE UNCHANGED <<ppc, groq, response>>
    /\ UNCHANGED <<from, destination, env, interestsOk, geo, caught, travel, readerReads>>
    /\ UNCHANGED <<streamVars, travelVars>>

\* Faulty variant: the stream is built from whatever Groq answered.
GroqSettle_NoOkCheck(outcome) ==
    /\ ppc = "groq"
    /\ groq' = outcome
    /\ ppc' = "returned"
    /\ IF outcome # "failed"
       THEN response' = StreamResponse /\ readerReads' = 1
       ELSE response' = JsonError(500, GroqFailedMessage) /\ readerReads' = readerReads
    /\ UNCHANGED <<from, destination, env, interestsOk, geo, caught, travel, destInfo>>
    /\ UNCHANGED <<streamVars, travelVars>>

\* the fetch to Groq settles: ok (the stream is built, its start() issues the first
\* read, and the text/plain response is returned), not ok (the error body is read
\* with json()/text() for the message), or the fetch throws
GroqSettle(outcome) ==
    /\ ppc = "groq"
    /\ groq' = outcome
    /\ ppc' = "returned"
    /\ CASE outcome = "ok" -> response' = StreamResponse /\ readerReads' = 1
         [] outcome = "notOk" ->
                response' = JsonError(500, GroqApiErrorMessage) /\ readerReads' = readerReads
         [] OTHER ->
                response' = JsonError(500, GroqFailedMessage) /\ readerReads' = readerReads
    /\ UNCHANGED <<from, destination, env, interestsOk, geo, caught, travel, destInfo>>
    /\ UNCHANGED <<streamVars, travelVars>>

\* start() reads the Groq body again
ReaderRead ==
    /\ response = StreamResponse
    /\ readerReads < MaxReads
    /\ readerReads' = readerReads + 1
    /\ UNCHANGED <<from, destination, env, interestsOk, ppc, geo, caught, travel, destInfo,
                   groq, response>>
    /\ UNCHANGED <<streamVars, travelVars>>

PostNext ==
    \/ AntarcticaGuard
    \/ StartGeocoding
    \/ \E who \in {"from", "dest"}, outcome \in {"ok", "notOk", "empty", "fetchFailed"} :
          GetCoordsSettle(who, outcome)
    \/ TravelDataDone
    \/ DestinationInfoDone
    \/ \E outcome \in {"ok", "notOk", "failed"} : GroqSettle(outcome)
    \/ ReaderRead

(***************************************************************************)
(* Claims about POST.                                                      *)
(***************************************************************************)
Finished == ppc \in {"returned", "threw"}
NoCallMade ==
    /\ geo = [from |-> "idle", dest |-> "idle"]
    /\ travel = "idle" /\ destInfo = "idle" /\ groq = "idle"
GeocodingSucceeded == geo = [from |-> "fulfilled", dest |-> "fulfilled"]

\* C3: the Groq request is sent only after both geocoding calls have succeeded
\* and both getTravelData and getDestinationInfo have completed; the two data
\* fetches are started only after both geocoding calls have succeeded; the
\* text/plain response is returned only if Groq answered ok.
C3_PipelineOrder ==
    /\ groq # "idle" => (GeocodingSucceeded /\ travel = "done" /\ destInfo = "done")
    /\ (travel # "idle" \/ destInfo # "idle") => GeocodingSucceeded
    /\ response.contentType = StreamResponse.contentType => groq = "ok"

C3_Witness ==
    /\ ppc = "returned" /\ response = StreamResponse
    /\ groq = "ok" /\ travel = "done" /\ destInfo = "done"

\* the destination holds the letters of 'antarctica', each in either case
ContainsAntarctica(s) ==
    \E off \in 0..(Len(s) - Len(AntarcticaNeedle)) :
        \A j \in 1..Len(AntarcticaNeedle) :
            \E n \in 1..Len(LowerLetters) :
                /\ LowerLetters[n] = AntarcticaNeedle[j]
                /\ s[off + j] \in {LowerLetters[n], UpperLetters[n]}

\* C4: a destination that contains 'antarctica' in any letter case is answered
\* with a status-400 JSON error and no geocoding, routing, SerpApi or Groq call.
C4_AntarcticaGuard ==
    (ContainsAntarctica(destination) /\ ppc # "start") =>
        /\ ppc = "returned"
        /\ response = JsonError(400, AntarcticaMessage)
        /\ NoCallMade
        /\ readerReads = 0

C4_Witness ==
    /\ destination = AntarcticaInside
    /\ ppc = "returned" /\ response.status = 400

\* C5 (as stated): a geocoding failure is answered with a status-500 JSON
\* response with an error field, the data fetches and Groq are never started,
\* and a failure 'Location not found: X' gives 'Could not find location: X'.
C5_GeocodingFailure ==
    (geo["from"] = "rejected" \/ geo["dest"] = "rejected") =>
        /\ ppc = "returned"
        /\ response.status = 500 /\ response.contentType = "application/json"
        /\ response.error # <<>>
        /\ travel = "idle" /\ destInfo = "idle" /\ groq = "idle"
        /\ \A X \in {from, destination} :
              caught = LocationNotFoundPrefix \o X => response.error = CouldNotFindPrefix \o X

\* C6 (as stated): with GROQ_API_KEY unset POST returns a status-500 JSON error
\* and sends nothing to Groq; a Groq response that is not ok, or a throwing fetch,
\* gives a status-500 JSON error; in none of these cases is there a text/plain
\* stream or a read of the upstream body.
C6_AsStated ==
    Finished =>
        /\ ~env.GROQ_API_KEY =>
              (response.status = 500 /\ response.contentType = "application/json"
               /\ groq = "idle")
        /\ groq \in {"notOk", "failed"} =>
              (response.status = 500 /\ response.contentType = "application/json")
        /\ (~env.GROQ_API_KEY \/ groq \in {"notOk", "failed"}) =>
              (response.contentType # StreamResponse.contentType /\ readerReads = 0)

\* POST got as far as the GROQ_API_KEY check: the guard rail was passed, both
\* data fetches completed and the prompt was built
ReachedGroqStage == travel = "done" /\ destInfo = "done" /\ interestsOk

\* C6 (amended): the same, for a POST that reaches the Groq stage.
C6_GroqFailure ==
    (Finished /\ ReachedGroqStage) =>
        /\ ~env.GROQ_API_KEY =>
              (response = JsonError(500, MissingGroqKeyMessage) /\ groq = "idle")
        /\ groq \in {"notOk", "failed"} =>
              (response.status = 500 /\ response.contentType = "application/json"
               /\ response.error # <<>>)
        /\ (~env.GROQ_API_KEY \/ groq \in {"notOk", "failed"}) =>
              (response.contentType # StreamResponse.contentType /\ readerReads = 0)

C6_Witness ==
    /\ Finished /\ ReachedGroqStage
    /\ groq = "notOk" /\ response.status = 500

(***************************************************************************)
(* getTravelData, called by POST with both coordinates pre-fetched (step 1, *)
(* the coordinate fetch, is then skipped).                                  *)
(***************************************************************************)
\* the Haversine distance above which a flight is guessed, in km
FlightGuessKm == 1000

NotAvailable == [text |-> "N/A", km |-> 0]

\* formatTravelTime(seconds): `${hours} hours ${minutes} mins`
formatTravelTime(seconds) ==
    [text |-> "hours mins", hours |-> seconds \div 3600, mins |-> (seconds % 3600) \div 60]

\* a travel time that is a text taken as it is
timeText(text) == [text |-> text, hours |-> 0, mins |-> 0]

\* `${(route.lengthInMeters / 1000).toFixed(0)} km`
distanceKm(lengthInMeters) == [text |-> "km", km |-> (lengthInMeters + 500) \div 1000]

\* what a routing response body may hold
RouteBodies ==
    { [kind |-> "routes", lengthInMeters |-> 999499, travelTimeInSeconds |-> 3599],
      [kind |-> "routes", lengthInMeters |-> 1500500, travelTimeInSeconds |-> 7325],
      [kind |-> "noRoutes", lengthInMeters |-> 0, travelTimeInSeconds |-> 0],
      [kind |-> "malformed", lengthInMeters |-> 0, travelTimeInSeconds |-> 0] }

routeOption(mode, body) ==
    [mode |-> mode, time |-> formatTravelTime(body.travelTimeInSeconds),
     distance |-> distanceKm(body.lengthInMeters)]

\* step 2, after Promise.allSettled: the car block, then the bus block, inside
\* one try; a body that json() cannot parse throws to the catch at the end of
\* the step and whatever follows in the try is skipped
routingStep(car, carB, bus, busB) ==
    LET carRead == car = "ok"
        carThrew == carRead /\ carB.kind = "malformed"
        carPushed == carRead /\ carB.kind = "routes"
        busRead == ~carThrew /\ bus = "ok"
        busPushed == busRead /\ busB.kind = "routes"
    IN [options |-> (IF carPushed THEN <<routeOption("Car", carB)>> ELSE <<>>)
                    \o (IF busPushed THEN <<routeOption("Bus/Train (Public)", busB)>> ELSE <<>>),
        overallDistance |-> IF carPushed THEN distanceKm(carB.lengthInMeters)
                            ELSE IF busPushed THEN distanceKm(busB.lengthInMeters)
                            ELSE NotAvailable]

\* step 3: the SerpApi flight search; without a key, or when the search throws,
\* nothing is added
flightStep(opts, key, search, km) ==
    IF ~key \/ search = "throws" THEN opts
    ELSE IF search = "duration" THEN Append(opts, [mode |-> "Flight", time |-> timeText("answer_box.duration")])
    ELSE IF search = "snippet" THEN Append(opts, [mode |-> "Flight", time |-> timeText("answer_box.snippet")])
    ELSE IF Len(opts) = 0 /\ km > FlightGuessKm
         THEN Append(opts, [mode |-> "Flight", time |-> timeText("Varies (check airlines)")])
         ELSE opts

\* step 4: the fallback distance when no route gave one
distanceStep(dist, key, search, km) ==
    IF dist # NotAvailable THEN dist
    ELSE IF key /\ search = "answer" THEN [text |-> "answer_box.answer", km |-> 0]
    ELSE [text |-> "km (direct)", km |-> km]

TravelInit ==
    /\ tpc = "start"
    /\ carResponse = "idle" /\ busResponse = "idle"
    /\ carBody \in RouteBodies /\ busBody \in RouteBodies
    /\ serpKey \in BOOLEAN
    /\ flightSearch \in {"duration", "snippet", "none", "throws"}
    /\ distanceSearch \in {"answer", "none", "throws"}
    /\ haversineKm \in {640, 1000, 1001}
    /\ options = <<>>
    /\ overallDistance = NotAvailable
    \* start() and POST are not running
    /\ upstream = <<>> /\ pos = 0 /\ buffer = <<>> /\ enqueued = <<>>
    /\ controller = "open" /\ spc = "idle" /\ carried = FALSE
    /\ from = <<>> /\ destination = <<>> /\ env = <<>> /\ interestsOk = TRUE
    /\ ppc = "idle" /\ geo = <<>> /\ caught = <<>> /\ travel = "idle" /\ destInfo = "idle"
    /\ groq = "idle" /\ response = <<>> /\ readerReads = 0

\* Promise.allSettled([fetch(carUrl), fetch(busUrl)]): both fetches start
StartRouting ==
    /\ tpc = "start"
    /\ carResponse' = "pending" /\ busResponse' = "pending"
    /\ tpc' = "routing"
    /\ UNCHANGED <<carBody, busBody, serpKey, flightSearch, distanceSearch, haversineKm,
                   options, overallDistance>>
    /\ UNCHANGED <<streamVars, postVars>>

\* the car fetch settles: fulfilled ok, fulfilled not ok, or rejected
CarSettle(st) ==
    /\ carResponse = "pending"
    /\ carResponse' = st
    /\ UNCHANGED <<tpc, busResponse, carBody, busBody, serpKey, flightSearch, distanceSearch,
                   haversineKm, options, overallDistance>>
    /\ UNCHANGED <<streamVars, postVars>>

\* the bus fetch settles
BusSettle(st) ==
    /\ busResponse = "pending"
    /\ busResponse' = st
    /\ UNCHANGED <<tpc, carResponse, carBody, busBody, serpKey, flightSearch, distanceSearch,
                   haversineKm, options, overallDistance>>
    /\ UNCHANGED <<streamVars, postVars>>

\* both have settled: step 2 reads the bodies
Routing ==
    /\ tpc = "routing"
    /\ carResponse # "pending" /\ busResponse # "pending"
    /\ LET r == routingStep(carResponse, carBody, busResponse, busBody)
       IN options' = r.options /\ overallDistance' = r.overallDistance
    /\ tpc' = "flight"
    /\ UNCHANGED <<carResponse, busResponse, carBody, busBody, serpKey, flightSearch,
                   distanceSearch, haversineKm>>
    /\ UNCHANGED <<streamVars, postVars>>

\* step 3
Flight ==
    /\ tpc = "flight"
    /\ options' = flightStep(options, serpKey, flightSearch, haversineKm)
    /\ tpc' = "distance"
    /\ UNCHANGED <<carResponse, busResponse, carBody, busBody, serpKey, flightSearch,
                   distanceSearch, haversineKm, overallDistance>>
    /\ UNCHANGED <<streamVars, postVars>>

\* step 4 and the return
Distance ==
    /\ tpc = "distance"
    /\ overallDistance' = distanceStep(overallDistance, serpKey, distanceSearch, haversineKm)
    /\ tpc' = "done"
    /\ UNCHANGED <<carResponse, busResponse, carBody, busBody, serpKey, flightSearch,
                   distanceSearch, haversineKm, options>>
    /\ UNCHANGED <<streamVars, postVars>>

TravelNext ==
    \/ StartRouting
    \/ \E st \in {"ok", "notOk", "rejected"} : CarSettle(st)
    \/ \E st \in {"ok", "notOk", "rejected"} : BusSettle(st)
    \/ Routing
    \/ Flight
    \/ Distance

(***************************************************************************)
(* Claims about getTravelData.                                             *)
(***************************************************************************)
HasMode(opts, m) == \E i \in 1..Len(opts) : opts[i].mode = m
FixedOrder == <<"Car", "Bus/Train (Public)", "Flight">>
Rank(m) == CHOOSE i \in 1..Len(FixedOrder) : FixedOrder[i] = m

\* a routing fetch that gives a route: it is fulfilled, ok, and its body holds one
Delivers(resp, body) == resp = "ok" /\ body.kind = "routes"

\* C9 (as stated): the options returned hold at most one entry per mode, in the
\* order Car, Bus/Train (Public), Flight, whatever the order in which the two
\* routing fetches settle; a routing fetch that delivers a route has its entry
\* whatever happened to the other one; the guessed Flight entry is there only
\* when there is no Car or Bus entry, the flight search gave neither duration nor
\* snippet, and the Haversine distance exceeds 1000 km.
C9_OptionsShape ==
    tpc = "done" =>
        /\ \A i, j \in 1..Len(options) : i < j => Rank(options[i].mode) < Rank(options[j].mode)
        /\ Delivers(carResponse, carBody) => HasMode(options, "Car")
        /\ Delivers(busResponse, busBody) => HasMode(options, "Bus/Train (Public)")
        /\ \A i \in 1..Len(options) :
              options[i].time.text = "Varies (check airlines)" =>
                  /\ ~HasMode(options, "Car") /\ ~HasMode(options, "Bus/Train (Public)")
                  /\ flightSearch \notin {"duration", "snippet"}
                  /\ haversineKm > 1000

\* ReadableStream.start on its own
SpecStream == StreamInit /\ [][StreamNext]_vars

\* POST on its own
SpecPost == PostInit /\ [][PostNext]_vars

\* getTravelData on its own
SpecTravel == TravelInit /\ [][TravelNext]_vars
====
